---- MODULE Spec2Model ----
(***************************************************************************)
(* Model of test-key-auth.py: the Snowflake key-pair authentication test.  *)
(* The script is one sequential run: get_configuration, load_private_key,  *)
(* test_connection, test_basic_queries, test_monitoring_access,            *)
(* test_datadog_requirements, the summary, and sys.exit.  Everything the   *)
(* script reads from outside (the environment, stdin, the key file, the    *)
(* cryptography and connector libraries) is a nondeterministic input.      *)
(*                                                                         *)
(* Strings are sequences of tokens: " " is a whitespace character, the     *)
(* placeholder markers "your-actual" and "your_actual" are single tokens,  *)
(* every other token is ordinary text.  `x in s` on strings is token       *)
(* membership, s.strip() removes the whitespace tokens at both ends.       *)
(***************************************************************************)
EXTENDS Integers, Sequences, FiniteSets, TLC

VARIABLES
    pc,                   \* position of the run in main / __main__
    SNOWFLAKE_ACCOUNT,    \* module globals, lines 29-32
    SNOWFLAKE_USER,
    SNOWFLAKE_ROLE,
    SNOWFLAKE_WAREHOUSE,
    stdin,                \* the lines still unread on standard input
    config_ok,            \* what get_configuration returned to main
    private_key,          \* main's locals
    conn,
    cursor,
    monitoring_ok,
    requirements_ok,
    success,              \* main's return value
    exit_status,          \* the process exit status, Running until it exits
    calls,                \* every call that left the script, in order
    out                   \* what was printed, in order

vars == <<pc, SNOWFLAKE_ACCOUNT, SNOWFLAKE_USER, SNOWFLAKE_ROLE,
          SNOWFLAKE_WAREHOUSE, stdin, config_ok, private_key, conn, cursor,
          monitoring_ok, requirements_ok, success, exit_status, calls, out>>

globals == <<SNOWFLAKE_ACCOUNT, SNOWFLAKE_USER, SNOWFLAKE_ROLE, SNOWFLAKE_WAREHOUSE>>

locals == <<config_ok, private_key, conn, cursor, monitoring_ok, requirements_ok>>

----------------------------------------------------------------------------
(* Bounds and input sets *)

\* the largest record count a requirement probe reports
MaxCount == 1

\* Python's None for a str-or-None global
NoneValue == <<"<None>">>

\* Python's None for main's object-valued locals
NoObject == "None"

Running == -1

\* what os.getenv can give for the account: unset, empty, a real value, placeholders
AccountEnvValues ==
    { NoneValue, <<>>, <<"acme">>, <<"your-actual", "acme">> }

\* what os.getenv can give for user, role and warehouse
NameEnvValues ==
    { NoneValue, <<"acme">>, <<"your_actual", "acme">> }

\* lines a user may type at a prompt
Answers ==
    { <<>>, <<" ">>, <<" ", "acme", " ">>, <<"your_actual">> }

\* the names of the four required fields, in prompt order (lines 322-325)
Fields == <<"ACCOUNT", "USER", "ROLE", "WAREHOUSE">>

\* the outcome of a call into a library: it returned, or raised an exception of
\* class cls whose message does or does not contain the word "password"
Ok == [cls |-> "ok", password |-> FALSE]

Raised(c, p) == [cls |-> c, password |-> p]

Failed == Raised("Exception", FALSE)

DecodeOutcomes ==
    {Ok} \cup { Raised(c, p) : c \in {"ValueError", "TypeError", "Exception"},
                             p \in BOOLEAN }

ReadOutcomes == { Ok, Raised("FileNotFoundError", FALSE), Raised("OSError", FALSE) }

CallOutcomes == { Ok, Failed }

\* a call that left the script: the function, what it was called for, how it
\* ended, the line it read (input) and the number it returned (a record count;
\* 1 or 0 for os.path.exists)
Call(o, l, r) == [op |-> o, label |-> l, res |-> r, text |-> <<>>, val |-> 0]

Input(l, r, t) == [op |-> "input", label |-> l, res |-> r, text |-> t, val |-> 0]

Returned(o, l, v) == [op |-> o, label |-> l, res |-> Ok, text |-> <<>>, val |-> v]

Msg(m) == [msg |-> m, label |-> <<>>, n |-> 0]

MsgL(m, l, k) == [msg |-> m, label |-> l, n |-> k]

----------------------------------------------------------------------------
(* String helpers *)

\* bool(s) for a str-or-None value
Truthy(s) == s # NoneValue /\ s # <<>>

\* `tok in str(s)`
Contains(s, tok) == \E i \in DOMAIN s : s[i] = tok

RECURSIVE LStrip(_)
LStrip(s) == IF s # <<>> /\ Head(s) = " " THEN LStrip(Tail(s)) ELSE s

RECURSIVE RStrip(_)
RStrip(s) ==
    IF s # <<>> /\ s[Len(s)] = " " THEN RStrip(SubSeq(s, 1, Len(s) - 1)) ELSE s

\* s.strip()
Strip(s) == RStrip(LStrip(s))

----------------------------------------------------------------------------
(* get_configuration, lines 302-358 *)

\* the four input() calls of lines 322-325 against the lines waiting on stdin:
\* a call with no line left raises EOFError and nothing after it runs
RECURSIVE Prompts(_, _)
Prompts(i, lines) ==
    IF i > Len(Fields) THEN <<>>
    ELSE IF lines = <<>> THEN << Input(Fields[i], Raised("EOFError", FALSE), <<>>) >>
    ELSE << Input(Fields[i], Ok, Head(lines)) >> \o Prompts(i + 1, Tail(lines))

\* Merge without the `if account:` tests: every answer is assigned
Merge_unconditional(old, answer) == Strip(answer)

\* lines 327-334: a non-blank answer replaces the global, a blank one keeps it
Merge(old, answer) == IF Strip(answer) # <<>> THEN Strip(answer) ELSE old

\* lines 337-345: the names of the fields that are empty or hold their placeholder
Missing(acc, usr, rol, wh) ==
    (IF ~Truthy(acc) \/ Contains(acc, "your-actual") THEN <<"ACCOUNT">> ELSE <<>>)
    \o (IF ~Truthy(usr) \/ Contains(usr, "your_actual") THEN <<"USER">> ELSE <<>>)
    \o (IF ~Truthy(rol) \/ Contains(rol, "your_actual") THEN <<"ROLE">> ELSE <<>>)
    \o (IF ~Truthy(wh) \/ Contains(wh, "your_actual") THEN <<"WAREHOUSE">> ELSE <<>>)

\* line 307
env_loaded(acc, usr, rol, wh) ==
    Truthy(acc) /\ Truthy(usr) /\ Truthy(rol) /\ Truthy(wh)

\* get_configuration on the globals (acc, usr, rol, wh) with `lines` on stdin.
\* ret is "True", "False", or "EOFError" when an input() call raised.
get_configuration(acc, usr, rol, wh, lines) ==
    IF env_loaded(acc, usr, rol, wh)
    THEN [ret |-> "True", account |-> acc, user |-> usr, role |-> rol,
          warehouse |-> wh, stdin |-> lines, calls |-> <<>>,
          out |-> << Msg("ConfigurationLoadedFromEnvironment") >>]
    ELSE IF Len(lines) < Len(Fields)
    THEN [ret |-> "EOFError", account |-> acc, user |-> usr, role |-> rol,
          warehouse |-> wh, stdin |-> <<>>, calls |-> Prompts(1, lines),
          out |-> << Msg("PleaseProvideConnectionDetails") >>]
    ELSE LET a == Merge(acc, lines[1])
             u == Merge(usr, lines[2])
             r == Merge(rol, lines[3])
             w == Merge(wh, lines[4])
             missing == Missing(a, u, r, w)
         IN  [ret |-> IF missing # <<>> THEN "False" ELSE "True",
              account |-> a, user |-> u, role |-> r, warehouse |-> w,
              stdin |-> SubSeq(lines, Len(Fields) + 1, Len(lines)),
              calls |-> Prompts(1, lines),
              out |-> << Msg("PleaseProvideConnectionDetails"),
                         IF missing # <<>>
                         THEN MsgL("MissingConfiguration", missing, 0)
                         ELSE Msg("ConfigurationSet") >>]

----------------------------------------------------------------------------
(* load_private_key, lines 38-89 *)

\* the handlers of lines 74-89 for an exception leaving the try of line 50
KeyLoadHandler(exc) ==
    IF exc.cls = "FileNotFoundError" THEN Msg("KeyFileNotFoundOnOpen")
    ELSE IF exc.cls = "ValueError"
    THEN (IF exc.password THEN Msg("KeyRequiresPassword") ELSE Msg("InvalidKeyFormat"))
    ELSE Msg("ErrorLoadingKey")

\* load_private_key without the `return None` of line 45: a missing file is
\* reported and then opened all the same
load_private_key_no_return(exists, readRes, derRes, pemRes) ==
    LET found == << Returned("os.path.exists", "key", IF exists THEN 1 ELSE 0),
                    Call("os.path.getsize", "key", Ok),
                    Call("read", "key",
                         IF exists THEN readRes ELSE Raised("FileNotFoundError", FALSE)) >>
        ended == IF ~exists THEN Raised("FileNotFoundError", FALSE)
                 ELSE IF readRes # Ok THEN readRes
                 ELSE IF derRes = Ok THEN Ok
                 ELSE IF derRes.cls # "ValueError" THEN derRes
                 ELSE pemRes
        decodes == IF ~exists \/ readRes # Ok THEN <<>>
                   ELSE IF derRes = Ok \/ derRes.cls # "ValueError"
                   THEN << Call("load_der_private_key", "key", derRes) >>
                   ELSE << Call("load_der_private_key", "key", derRes),
                           Call("load_pem_private_key", "key", pemRes) >>
    IN  [ret |-> IF ended = Ok THEN "key" ELSE NoObject,
         calls |-> found \o decodes,
         out |-> << Msg("CheckingForKeyFile"),
                    IF exists THEN Msg("KeyFileFound") ELSE Msg("KeyFileNotFound"),
                    Msg("LoadingPrivateKey"),
                    IF ended = Ok THEN Msg("PrivateKeyLoaded") ELSE KeyLoadHandler(ended) >>]

\* load_private_key with `except Exception` at line 63: the PEM decoder is tried
\* after any failure of the DER decoder
load_private_key_any_error(exists, readRes, derRes, pemRes) ==
    LET found == << Returned("os.path.exists", "key", 1),
                    Call("os.path.getsize", "key", Ok),
                    Call("read", "key", readRes) >>
        der == Call("load_der_private_key", "key", derRes)
        pem == Call("load_pem_private_key", "key", pemRes)
        begin == << Msg("CheckingForKeyFile"), Msg("KeyFileFound"), Msg("LoadingPrivateKey") >>
    IN  IF ~exists
        THEN [ret |-> NoObject,
              calls |-> << Returned("os.path.exists", "key", 0) >>,
              out |-> << Msg("CheckingForKeyFile"), Msg("KeyFileNotFound") >>]
        ELSE IF readRes # Ok
        THEN [ret |-> NoObject, calls |-> found,
              out |-> Append(begin, KeyLoadHandler(readRes))]
        ELSE IF derRes = Ok
        THEN [ret |-> "key", calls |-> Append(found, der),
              out |-> Append(begin, Msg("PrivateKeyLoaded"))]
        ELSE IF pemRes = Ok
        THEN [ret |-> "key", calls |-> found \o << der, pem >>,
              out |-> Append(begin, Msg("PrivateKeyLoaded"))]
        ELSE [ret |-> NoObject, calls |-> found \o << der, pem >>,
              out |-> Append(begin, KeyLoadHandler(pemRes))]

\* load_private_key when os.path.exists gives `exists`, reading the file ends as
\* readRes, and the DER and the PEM decoder (if called) end as derRes and pemRes
load_private_key(exists, readRes, derRes, pemRes) ==
    LET found == << Returned("os.path.exists", "key", 1),
                    Call("os.path.getsize", "key", Ok),
                    Call("read", "key", readRes) >>
        der == Call("load_der_private_key", "key", derRes)
        pem == Call("load_pem_private_key", "key", pemRes)
        begin == << Msg("CheckingForKeyFile"), Msg("KeyFileFound"), Msg("LoadingPrivateKey") >>
    IN  IF ~exists
        THEN [ret |-> NoObject,
              calls |-> << Returned("os.path.exists", "key", 0) >>,
              out |-> << Msg("CheckingForKeyFile"), Msg("KeyFileNotFound") >>]
        ELSE IF readRes # Ok
        THEN [ret |-> NoObject, calls |-> found,
              out |-> Append(begin, KeyLoadHandler(readRes))]
        ELSE IF derRes = Ok
        THEN [ret |-> "key", calls |-> Append(found, der),
              out |-> Append(begin, Msg("PrivateKeyLoaded"))]
        ELSE IF derRes.cls # "ValueError"
        THEN [ret |-> NoObject, calls |-> Append(found, der),
              out |-> Append(begin, KeyLoadHandler(derRes))]
        ELSE IF pemRes = Ok
        THEN [ret |-> "key", calls |-> found \o << der, pem >>,
              out |-> Append(begin, Msg("PrivateKeyLoaded"))]
        ELSE [ret |-> NoObject, calls |-> found \o << der, pem >>,
              out |-> Append(begin, KeyLoadHandler(pemRes))]

----------------------------------------------------------------------------
(* test_connection, lines 91-120, and test_basic_queries, lines 122-139 *)

test_connection(key, connectRes) ==
    IF connectRes = Ok
    THEN [ret |-> "conn",
          calls |-> << Call("snowflake.connector.connect", key, Ok) >>,
          out |-> << Msg("TestingConnection"), Msg("ConnectionEstablished") >>]
    ELSE [ret |-> NoObject,
          calls |-> << Call("snowflake.connector.connect", key, connectRes) >>,
          out |-> << Msg("TestingConnection"), Msg("ConnectionFailed"),
                     Msg("TroubleshootingTips") >>]

\* cursorRes: how conn.cursor() ends; queryRes: how the execute, fetch and print
\* of the identity query end
test_basic_queries(cursorRes, queryRes) ==
    IF cursorRes # Ok
    THEN [ret |-> NoObject, calls |-> << Call("conn.cursor", "", cursorRes) >>,
          out |-> << Msg("TestingBasicQueries"), Msg("BasicQueriesFailed") >>]
    ELSE IF queryRes # Ok
    THEN [ret |-> NoObject,
          calls |-> << Call("conn.cursor", "", Ok), Call("execute", "BASIC", queryRes) >>,
          out |-> << Msg("TestingBasicQueries"), Msg("BasicQueriesFailed") >>]
    ELSE [ret |-> "cursor",
          calls |-> << Call("conn.cursor", "", Ok), Call("execute", "BASIC", Ok) >>,
          out |-> << Msg("TestingBasicQueries"), Msg("SnowflakeVersion") >>]

----------------------------------------------------------------------------
(* test_monitoring_access, lines 141-237 *)

\* the five telemetry queries, in the order of lines 148, 158, 177, 195, 212
monitoring_queries ==
    << "query history", "warehouse performance", "storage metrics",
       "warehouse credit usage", "query execution metrics" >>

\* the telemetry queries with a try around each one: a failing query is
\* reported and the next one runs
RECURSIVE MonitoringFrom_isolated(_, _)
MonitoringFrom_isolated(i, raising) ==
    IF i > Len(monitoring_queries)
    THEN [ret |-> TRUE, calls |-> <<>>, out |-> <<>>]
    ELSE LET rest == MonitoringFrom_isolated(i + 1, raising)
             bad == monitoring_queries[i] \in raising
         IN  [ret |-> rest.ret /\ ~bad,
              calls |-> << Call("execute", monitoring_queries[i],
                                IF bad THEN Failed ELSE Ok) >> \o rest.calls,
              out |-> << MsgL("Testing", << monitoring_queries[i] >>, 0),
                         IF bad THEN Msg("MonitoringAccessTestFailed")
                         ELSE MsgL("Result", << monitoring_queries[i] >>, 0) >> \o rest.out]

\* the body of the single try of line 143 from query i on: the first query whose
\* execute, fetch or print raises leaves the try for the handler of line 233
RECURSIVE MonitoringFrom(_, _)
MonitoringFrom(i, raising) ==
    IF i > Len(monitoring_queries)
    THEN [ret |-> TRUE, calls |-> <<>>, out |-> <<>>]
    ELSE IF monitoring_queries[i] \in raising
    THEN [ret |-> FALSE,
          calls |-> << Call("execute", monitoring_queries[i], Failed) >>,
          out |-> << MsgL("Testing", << monitoring_queries[i] >>, 0),
                     Msg("MonitoringAccessTestFailed") >>]
    ELSE LET rest == MonitoringFrom(i + 1, raising)
         IN  [ret |-> rest.ret,
              calls |-> << Call("execute", monitoring_queries[i], Ok) >> \o rest.calls,
              out |-> << MsgL("Testing", << monitoring_queries[i] >>, 0),
                         MsgL("Result", << monitoring_queries[i] >>, 0) >> \o rest.out]

\* raising: the telemetry queries that raise when they are run
test_monitoring_access(raising) ==
    LET r == MonitoringFrom(1, raising)
    IN  [ret |-> r.ret, calls |-> r.calls,
         out |-> << Msg("TestingMonitoringAccess") >> \o r.out]

----------------------------------------------------------------------------
(* test_datadog_requirements, lines 239-300 *)

\* the names of requirements_tests, lines 243-284
requirements_tests ==
    << "1.A - CPU & Memory Utilization", "1.B - Storage Utilization",
       "1.C - Query Execution Time", "2.A - Data Loading Rate",
       "2.B - Warehouse Usage" >>

RequirementNames == { requirements_tests[i] : i \in DOMAIN requirements_tests }

\* what a probe's query does: raises, or returns a row with n available records
ProbeOutcomes ==
    { [raises |-> TRUE, n |-> 0] } \cup { [raises |-> FALSE, n |-> k] : k \in 0..MaxCount }

\* the loop without its inner try: the first failing probe ends it at the
\* handler of line 298
RECURSIVE RequirementsFrom_abort(_, _, _)
RequirementsFrom_abort(i, answer, all_passed) ==
    IF i > Len(requirements_tests)
    THEN [ret |-> all_passed, calls |-> <<>>, out |-> <<>>]
    ELSE IF answer[requirements_tests[i]].raises
    THEN [ret |-> FALSE,
          calls |-> << Call("execute", requirements_tests[i], Failed) >>,
          out |-> << Msg("RequirementsTestingFailed") >>]
    ELSE LET name == requirements_tests[i]
             rest == RequirementsFrom_abort(i + 1, answer, all_passed)
         IN  [ret |-> rest.ret,
              calls |-> << Returned("execute", name, answer[name].n) >> \o rest.calls,
              out |-> << MsgL("RecordsAvailable", << name >>, answer[name].n) >>
                      \o rest.out]

\* the loop of lines 287-294 from probe i on, all_passed being its value so far
RECURSIVE RequirementsFrom(_, _, _)
RequirementsFrom(i, answer, all_passed) ==
    IF i > Len(requirements_tests)
    THEN [ret |-> all_passed, calls |-> <<>>, out |-> <<>>]
    ELSE LET name == requirements_tests[i]
             rest == RequirementsFrom(i + 1, answer,
                                      IF answer[name].raises THEN FALSE ELSE all_passed)
         IN  [ret |-> rest.ret,
              calls |-> << IF answer[name].raises THEN Call("execute", name, Failed)
                           ELSE Returned("execute", name, answer[name].n) >> \o rest.calls,
              out |-> << IF answer[name].raises
                         THEN MsgL("ProbeFailed", << name >>, 0)
                         ELSE MsgL("RecordsAvailable", << name >>, answer[name].n) >>
                      \o rest.out]

\* answer: for each probe, what its query does
test_datadog_requirements(answer) ==
    LET r == RequirementsFrom(1, answer, TRUE)
    IN  [ret |-> r.ret, calls |-> r.calls,
         out |-> << Msg("TestingDatadogRequirements") >> \o r.out]

----------------------------------------------------------------------------
(* main, lines 360-418, one action per stage, and __main__, lines 420-423 *)

\* lines 361-369
main_get_configuration ==
    /\ pc = "get_configuration"
    /\ LET r == get_configuration(SNOWFLAKE_ACCOUNT, SNOWFLAKE_USER, SNOWFLAKE_ROLE,
                                  SNOWFLAKE_WAREHOUSE, stdin)
       IN  /\ SNOWFLAKE_ACCOUNT' = r.account
           /\ SNOWFLAKE_USER' = r.user
           /\ SNOWFLAKE_ROLE' = r.role
           /\ SNOWFLAKE_WAREHOUSE' = r.warehouse
           /\ stdin' = r.stdin
           /\ calls' = calls \o r.calls
           /\ out' = << Msg("Banner") >> \o r.out
           /\ config_ok' = (r.ret = "True")
           /\ pc' = CASE r.ret = "True" -> "load_private_key"
                      [] r.ret = "False" -> "returned"
                      [] OTHER -> "crashed"
           \* an exception nobody catches ends the interpreter with status 1
           /\ exit_status' = IF r.ret = "EOFError" THEN 1 ELSE exit_status
    /\ UNCHANGED <<private_key, conn, cursor, monitoring_ok, requirements_ok, success>>

\* lines 371-374
main_load_private_key ==
    /\ pc = "load_private_key"
    /\ \E exists \in BOOLEAN, readRes \in ReadOutcomes,
          derRes \in DecodeOutcomes, pemRes \in DecodeOutcomes :
          LET r == load_private_key(exists, readRes, derRes, pemRes)
          IN  /\ private_key' = r.ret
              /\ calls' = calls \o r.calls
              /\ out' = out \o r.out
                          \o (IF r.ret = NoObject THEN << Msg("CannotProceedWithoutKey") >>
                              ELSE <<>>)
              /\ pc' = IF r.ret = NoObject THEN "returned" ELSE "test_connection"
    /\ UNCHANGED <<globals, stdin, config_ok, conn, cursor, monitoring_ok,
                   requirements_ok, success, exit_status>>

\* main without the return of line 379: the run goes on with no session
main_test_connection_no_return ==
    /\ pc = "test_connection"
    /\ \E connectRes \in CallOutcomes :
          LET r == test_connection(private_key, connectRes)
          IN  /\ conn' = r.ret
              /\ calls' = calls \o r.calls
              /\ out' = out \o r.out
                          \o (IF r.ret = NoObject
                              THEN << Msg("CannotProceedWithoutConnection") >> ELSE <<>>)
    /\ pc' = "test_basic_queries"
    /\ UNCHANGED <<globals, stdin, config_ok, private_key, cursor, monitoring_ok,
                   requirements_ok, success, exit_status>>

\* lines 376-379
main_test_connection ==
    /\ pc = "test_connection"
    /\ \E connectRes \in CallOutcomes :
          LET r == test_connection(private_key, connectRes)
          IN  /\ conn' = r.ret
              /\ calls' = calls \o r.calls
              /\ out' = out \o r.out
                          \o (IF r.ret = NoObject
                              THEN << Msg("CannotProceedWithoutConnection") >> ELSE <<>>)
              /\ pc' = IF r.ret = NoObject THEN "returned" ELSE "test_basic_queries"
    /\ UNCHANGED <<globals, stdin, config_ok, private_key, cursor, monitoring_ok,
                   requirements_ok, success, exit_status>>

\* main without the conn.close() of line 384
main_test_basic_queries_no_close ==
    /\ pc = "test_basic_queries"
    /\ \E cursorRes \in CallOutcomes, queryRes \in CallOutcomes :
          LET r == test_basic_queries(cursorRes, queryRes)
          IN  /\ cursor' = r.ret
              /\ calls' = calls \o r.calls
              /\ out' = out \o r.out
                          \o (IF r.ret = NoObject
                              THEN << Msg("CannotProceedWithoutBasicQueryAccess") >>
                              ELSE <<>>)
              /\ pc' = IF r.ret = NoObject THEN "returned" ELSE "test_monitoring_access"
    /\ UNCHANGED <<globals, stdin, config_ok, private_key, conn, monitoring_ok,
                   requirements_ok, success, exit_status>>

\* lines 381-385
main_test_basic_queries ==
    /\ pc = "test_basic_queries"
    /\ \E cursorRes \in CallOutcomes, queryRes \in CallOutcomes :
          LET r == test_basic_queries(cursorRes, queryRes)
          IN  /\ cursor' = r.ret
              /\ calls' = calls \o r.calls
                            \o (IF r.ret = NoObject
                                THEN << Call("conn.close", "", Ok) >> ELSE <<>>)
              /\ out' = out \o r.out
                          \o (IF r.ret = NoObject
                              THEN << Msg("CannotProceedWithoutBasicQueryAccess") >>
                              ELSE <<>>)
              /\ pc' = IF r.ret = NoObject THEN "returned" ELSE "test_monitoring_access"
    /\ UNCHANGED <<globals, stdin, config_ok, private_key, conn, monitoring_ok,
                   requirements_ok, success, exit_status>>

\* line 387
main_test_monitoring_access ==
    /\ pc = "test_monitoring_access"
    /\ \E raising \in SUBSET { monitoring_queries[i] : i \in DOMAIN monitoring_queries } :
          LET r == test_monitoring_access(raising)
          IN  /\ monitoring_ok' = r.ret
              /\ calls' = calls \o r.calls
              /\ out' = out \o r.out
    /\ pc' = "test_datadog_requirements"
    /\ UNCHANGED <<globals, stdin, config_ok, private_key, conn, cursor,
                   requirements_ok, success, exit_status>>

\* line 388
main_test_datadog_requirements ==
    /\ pc = "test_datadog_requirements"
    /\ \E answer \in [RequirementNames -> ProbeOutcomes] :
          LET r == test_datadog_requirements(answer)
          IN  /\ requirements_ok' = r.ret
              /\ calls' = calls \o r.calls
              /\ out' = out \o r.out
    /\ pc' = "summary"
    /\ UNCHANGED <<globals, stdin, config_ok, private_key, conn, cursor,
                   monitoring_ok, success, exit_status>>

\* main with `or` for the `and` of line 397
main_summary_either ==
    /\ pc = "summary"
    /\ calls' = calls \o << Call("cursor.close", "", Ok), Call("conn.close", "", Ok) >>
    /\ success' = (monitoring_ok \/ requirements_ok)
    /\ out' = out \o << Msg("TestResultsSummary"),
                        IF monitoring_ok \/ requirements_ok
                        THEN Msg("ALL TESTS PASSED") ELSE Msg("SOME TESTS FAILED") >>
    /\ pc' = "returned"
    /\ UNCHANGED <<globals, stdin, locals, exit_status>>

\* lines 390-418
main_summary ==
    /\ pc = "summary"
    /\ calls' = calls \o << Call("cursor.close", "", Ok), Call("conn.close", "", Ok) >>
    /\ success' = (monitoring_ok /\ requirements_ok)
    /\ out' = out \o << Msg("TestResultsSummary"),
                        IF monitoring_ok /\ requirements_ok
                        THEN Msg("ALL TESTS PASSED") ELSE Msg("SOME TESTS FAILED") >>
    /\ pc' = "returned"
    /\ UNCHANGED <<globals, stdin, locals, exit_status>>

\* lines 421-423: success is False on every early return of main
script_exit ==
    /\ pc = "returned"
    /\ out' = Append(out, Msg("TestCompleted"))
    /\ exit_status' = IF success THEN 0 ELSE 1
    /\ pc' = "exited"
    /\ UNCHANGED <<globals, stdin, locals, success, calls>>

----------------------------------------------------------------------------
(* Specifications *)

Start ==
    /\ pc = "get_configuration"
    /\ config_ok = FALSE
    /\ private_key = NoObject
    /\ conn = NoObject
    /\ cursor = NoObject
    /\ monitoring_ok = FALSE
    /\ requirements_ok = FALSE
    /\ success = FALSE
    /\ exit_status = Running
    /\ calls = <<>>
    /\ out = <<>>

\* the runs the whole script is followed through: the environment's four fields
\* and the lines waiting on stdin
Scenarios ==
    { \* every field set in the environment, nobody at the keyboard
      [env |-> << <<"acme">>, <<"acme">>, <<"acme">>, <<"acme">> >>, stdin |-> <<>>],
      \* the warehouse left at its placeholder
      [env |-> << <<"acme">>, <<"acme">>, <<"acme">>, <<"your_actual", "acme">> >>,
       stdin |-> <<>>],
      \* nothing set, every prompt answered
      [env |-> << NoneValue, NoneValue, NoneValue, NoneValue >>,
       stdin |-> << <<"acme">>, <<"acme">>, <<"acme">>, <<"acme">> >>],
      \* nothing set, Enter pressed at every prompt
      [env |-> << NoneValue, NoneValue, NoneValue, NoneValue >>,
       stdin |-> << <<>>, <<>>, <<>>, <<>> >>],
      \* the account alone unset and typed in, Enter pressed at the other prompts
      [env |-> << NoneValue, <<"acme">>, <<"acme">>, <<"acme">> >>,
       stdin |-> << <<" ", "acme">>, <<>>, <<" ">>, <<>> >>],
      \* the account alone unset, stdin ending after two lines
      [env |-> << NoneValue, <<"acme">>, <<"acme">>, <<"acme">> >>,
       stdin |-> << <<"acme">>, <<"acme">> >>] }

Init ==
    /\ Start
    /\ \E run \in Scenarios :
          /\ SNOWFLAKE_ACCOUNT = run.env[1]
          /\ SNOWFLAKE_USER = run.env[2]
          /\ SNOWFLAKE_ROLE = run.env[3]
          /\ SNOWFLAKE_WAREHOUSE = run.env[4]
          /\ stdin = run.stdin

Next ==
    \/ main_get_configuration
    \/ main_load_private_key
    \/ main_test_connection
    \/ main_test_basic_queries
    \/ main_test_monitoring_access
    \/ main_test_datadog_requirements
    \/ main_summary
    \/ script_exit

Spec == Init /\ [][Next]_vars

\* get_configuration and the exit that follows its failure, from every
\* environment and every typed input
InitConfig ==
    /\ Start
    /\ SNOWFLAKE_ACCOUNT \in AccountEnvValues
    /\ SNOWFLAKE_USER \in NameEnvValues
    /\ SNOWFLAKE_ROLE \in NameEnvValues
    /\ SNOWFLAKE_WAREHOUSE \in NameEnvValues
    /\ \E k \in 0..Len(Fields) : stdin \in [1..k -> Answers]

NextConfig ==
    \/ main_get_configuration
    \/ script_exit

SpecConfig == InitConfig /\ [][NextConfig]_vars

----------------------------------------------------------------------------
(* Reading the traces *)

Printed(m) == \E i \in DOMAIN out : out[i].msg = m

Called(o) == \E i \in DOMAIN calls : calls[i].op = o

CallsTo(o) == SelectSeq(calls, LAMBDA c : c.op = o)

\* the run is over: sys.exit was reached, or an exception ended the interpreter
Terminated == pc \in {"exited", "crashed"}

\* main has returned (or the run is over)
MainReturned == pc \in {"returned", "exited", "crashed"}

\* the execute calls made for the queries named in the list qs
Executed(qs) ==
    SelectSeq(calls, LAMBDA c : c.op = "execute"
                                /\ \E i \in DOMAIN qs : qs[i] = c.label)

Labels(cs) == [i \in DOMAIN cs |-> cs[i].label]

\* test_monitoring_access / test_datadog_requirements has returned to main
MonitoringDone == Printed("TestingMonitoringAccess") /\ pc # "test_monitoring_access"

RequirementsDone == Printed("TestingDatadogRequirements")

----------------------------------------------------------------------------
(* C1 *)

AllStagesSucceeded ==
    /\ config_ok
    /\ private_key # NoObject
    /\ conn # NoObject
    /\ cursor # NoObject
    /\ monitoring_ok
    /\ requirements_ok

\* C1: when the run is over its exit status is 0 if get_configuration succeeded,
\* load_private_key returned a key, test_connection a session, test_basic_queries
\* a cursor and both group flags are true, and 1 in every other run; the
\* "ALL TESTS PASSED" summary is printed in exactly the runs that exit 0, and
\* while the run goes on it has been printed only if main is returning success.
Thm_C1_ExitStatus ==
    /\ Terminated =>
          /\ exit_status = (IF AllStagesSucceeded THEN 0 ELSE 1)
          /\ Printed("ALL TESTS PASSED") <=> (exit_status = 0)
    /\ ~Terminated =>
          /\ exit_status = Running
          /\ Printed("ALL TESTS PASSED") => (pc = "returned" /\ success /\ AllStagesSucceeded)

Wit_C1_ExitZero ==
    pc = "exited" /\ exit_status = 0 /\ AllStagesSucceeded /\ Printed("ALL TESTS PASSED")

----------------------------------------------------------------------------
(* C2 *)

\* the queries of a group that ran and raised
FailedOf(qs) == SelectSeq(Executed(qs), LAMBDA c : c.res # Ok)

\* s is the beginning of t
IsPrefix(s, t) == Len(s) <= Len(t) /\ s = SubSeq(t, 1, Len(s))

\* C2 as stated: in both groups every query is executed whatever fails before it,
\* and the group's flag is false exactly when one of its queries failed.
Orig_C2_BothGroupsIsolated ==
    /\ MonitoringDone =>
          /\ Labels(Executed(monitoring_queries)) = monitoring_queries
          /\ monitoring_ok <=> (FailedOf(monitoring_queries) = <<>>)
    /\ RequirementsDone =>
          /\ Labels(Executed(requirements_tests)) = requirements_tests
          /\ requirements_ok <=> (FailedOf(requirements_tests) = <<>>)

\* C2 amended: in test_datadog_requirements a failing probe is caught alone and
\* all five probes are executed; in test_monitoring_access the five queries share
\* one try, so the queries run in order up to the first that fails and no later
\* telemetry query is executed.  In both groups the flag is false exactly when a
\* query of the group failed.
Thm_C2_GroupFailureHandling ==
    /\ MonitoringDone =>
          LET ran == Executed(monitoring_queries)
          IN  /\ IsPrefix(Labels(ran), monitoring_queries)
              /\ \A i \in DOMAIN ran : (ran[i].res # Ok) => i = Len(ran)
              /\ (Len(ran) < Len(monitoring_queries)) => ran[Len(ran)].res # Ok
              /\ monitoring_ok <=> (FailedOf(monitoring_queries) = <<>>)
    /\ RequirementsDone =>
          /\ Labels(Executed(requirements_tests)) = requirements_tests
          /\ requirements_ok <=> (FailedOf(requirements_tests) = <<>>)

\* the first telemetry query failed, the other four never ran, and a failing
\* first probe was followed by the other four
Wit_C2_FirstQueryFails ==
    /\ RequirementsDone
    /\ Len(Executed(monitoring_queries)) = 1
    /\ ~monitoring_ok
    /\ Executed(requirements_tests)[1].res # Ok
    /\ Len(Executed(requirements_tests)) = 5
    /\ ~requirements_ok

----------------------------------------------------------------------------
(* C3 *)

\* the lines test_datadog_requirements printed for its probes
ProbeReports ==
    SelectSeq(out, LAMBDA m : m.msg \in {"ProbeFailed", "RecordsAvailable"})

\* C3: once test_datadog_requirements has run, whichever probes raised, the five
\* probes were executed exactly once each in list order, probe i is reported
\* under its own name as failed if its query raised and with the record count its
\* own query returned otherwise, and the function returned true exactly when no
\* probe raised.
Thm_C3_RequirementProbes ==
    RequirementsDone =>
        LET ran == Executed(requirements_tests)
        IN  /\ Labels(ran) = requirements_tests
            /\ Len(ProbeReports) = Len(requirements_tests)
            /\ \A i \in DOMAIN requirements_tests :
                  /\ ProbeReports[i].label = << requirements_tests[i] >>
                  /\ (ran[i].res # Ok) <=> (ProbeReports[i].msg = "ProbeFailed")
                  /\ (ran[i].res = Ok) =>
                        /\ ProbeReports[i].msg = "RecordsAvailable"
                        /\ ProbeReports[i].n = ran[i].val
            /\ requirements_ok <=> (\A i \in DOMAIN ran : ran[i].res = Ok)

\* probes 2 and 4 raised, the others returned different counts
Wit_C3_TwoProbesFail ==
    /\ pc = "summary"
    /\ LET ran == Executed(requirements_tests)
       IN  /\ Len(ran) = 5
           /\ ran[2].res # Ok /\ ran[4].res # Ok
           /\ ran[1].res = Ok /\ ran[3].res = Ok /\ ran[5].res = Ok
           /\ ran[1].val = 0 /\ ran[3].val = 1
    /\ ~requirements_ok

----------------------------------------------------------------------------
(* C4 *)

\* os.path.exists(PRIVATE_KEY_PATH) was called and returned False
KeyFileMissing ==
    \E i \in DOMAIN calls : calls[i].op = "os.path.exists" /\ calls[i].val = 0

\* C4: if the key file does not exist, load_private_key reports file-not-found
\* and returns no key, nothing is read or decoded, snowflake.connector.connect is
\* never called, main has returned failure, and the run exits with status 1.
Thm_C4_MissingKeyFile ==
    KeyFileMissing =>
        /\ private_key = NoObject
        /\ Printed("KeyFileNotFound")
        /\ ~Called("read")
        /\ ~Called("load_der_private_key")
        /\ ~Called("load_pem_private_key")
        /\ ~Called("snowflake.connector.connect")
        /\ pc \in {"returned", "exited"}
        /\ ~success
        /\ exit_status = (IF pc = "exited" THEN 1 ELSE Running)

Wit_C4_MissingKeyFile == KeyFileMissing /\ pc = "exited" /\ exit_status = 1

----------------------------------------------------------------------------
(* C5 *)

\* the sessions snowflake.connector.connect opened
Opened ==
    SelectSeq(calls, LAMBDA c : c.op = "snowflake.connector.connect" /\ c.res = Ok)

\* C5: connect is called at most once in a run; conn.close is called only on an
\* opened session and at most once; when main has returned, the session is closed
\* if test_connection opened one (on the success path and on the basic-query
\* failure path alike), and close was never called if none was opened.
Thm_C5_SessionClosed ==
    /\ Len(CallsTo("snowflake.connector.connect")) <= 1
    /\ Len(CallsTo("conn.close")) <= Len(Opened)
    /\ (conn # NoObject) <=> (Len(Opened) = 1)
    /\ MainReturned => Len(CallsTo("conn.close")) = Len(Opened)

\* the basic query failed on an open session and main returned with it closed
Wit_C5_ClosedAfterBasicFailure ==
    /\ pc = "returned"
    /\ conn # NoObject
    /\ cursor = NoObject
    /\ Len(CallsTo("conn.close")) = 1

----------------------------------------------------------------------------
(* C6 *)

\* the decoding attempts load_private_key made
Decodes ==
    SelectSeq(calls, LAMBDA c : c.op \in {"load_der_private_key", "load_pem_private_key"})

\* decoding was attempted, produced no key, and one of the attempts raised an
\* error about the password
PasswordFailure ==
    /\ pc \notin {"get_configuration", "load_private_key"}
    /\ private_key = NoObject
    /\ \E i \in DOMAIN Decodes : Decodes[i].res.password

\* C6 as stated: whenever decoding fails on a password error, whichever attempt
\* raised it, load_private_key prints the password-specific message and neither
\* "Invalid key format" nor "Error loading key".
Orig_C6_PasswordFailureReported ==
    PasswordFailure =>
        /\ Printed("KeyRequiresPassword")
        /\ ~Printed("InvalidKeyFormat")
        /\ ~Printed("ErrorLoadingKey")

----------------------------------------------------------------------------
(* C8 *)

\* the stage a printed line opens, 0 for a line that opens none
StageOf(m) ==
    CASE m \in {"ConfigurationLoadedFromEnvironment", "PleaseProvideConnectionDetails"} -> 1
      [] m = "CheckingForKeyFile" -> 2
      [] m = "TestingConnection" -> 3
      [] m = "TestingBasicQueries" -> 4
      [] m = "TestingMonitoringAccess" -> 5
      [] m = "TestingDatadogRequirements" -> 6
      [] OTHER -> 0

\* the stages that have started, in the order they started
StagesStarted ==
    LET opening == SelectSeq(out, LAMBDA m : StageOf(m.msg) > 0)
    IN  [i \in DOMAIN opening |-> StageOf(opening[i].msg)]

\* C8: the stages start in the order configuration, key load, connection, basic
\* query, telemetry group, requirements group, each at most once; a stage has
\* started only if every earlier fatal stage succeeded; when main has returned
\* after a fatal stage failed the run has ended or will end with status 1; and
\* once the basic query succeeded the requirements group runs before main
\* returns, whatever the telemetry flag.
Thm_C8_StageOrder ==
    LET started == StagesStarted
        fatal_ok == config_ok /\ private_key # NoObject /\ conn # NoObject
                    /\ cursor # NoObject
    IN  /\ \A i \in DOMAIN started : started[i] = i
        /\ Len(started) >= 2 => config_ok
        /\ Len(started) >= 3 => private_key # NoObject
        /\ Len(started) >= 4 => conn # NoObject
        /\ Len(started) >= 5 => cursor # NoObject
        /\ (MainReturned /\ ~fatal_ok) =>
              /\ ~success
              /\ exit_status = (IF Terminated THEN 1 ELSE Running)
        /\ (MainReturned /\ cursor # NoObject) => Len(started) = 6

\* the telemetry group failed and the requirements group ran all the same
Wit_C8_RequirementsAfterFailedTelemetry ==
    /\ pc = "exited"
    /\ ~monitoring_ok
    /\ requirements_ok
    /\ StagesStarted = <<1, 2, 3, 4, 5, 6>>
    /\ exit_status = 1

----------------------------------------------------------------------------
(* C10 *)

Der == CallsTo("load_der_private_key")

Pem == CallsTo("load_pem_private_key")

\* C10: the DER decoder is called first, as soon as the key file has been read,
\* and once; the PEM decoder is called exactly when the DER attempt raised
\* ValueError, directly after it; load_private_key returns a key exactly when the
\* DER attempt succeeded, or raised ValueError and the PEM attempt succeeded.
Thm_C10_OrderedFallback ==
    (pc \notin {"get_configuration", "load_private_key"}) =>
        /\ Len(Der) <= 1 /\ Len(Pem) <= 1
        /\ (Len(Der) = 1) <=> (\E i \in DOMAIN calls : calls[i].op = "read" /\ calls[i].res = Ok)
        /\ (Len(Pem) = 1) <=> (Len(Der) = 1 /\ Der[1].res.cls = "ValueError")
        /\ Len(Pem) = 1 => Labels(Decodes) = <<"key", "key">> /\ Decodes[1].op = "load_der_private_key"
        /\ (private_key # NoObject) <=>
              \/ (Len(Der) = 1 /\ Der[1].res = Ok)
              \/ (Len(Der) = 1 /\ Der[1].res.cls = "ValueError"
                  /\ Len(Pem) = 1 /\ Pem[1].res = Ok)

\* the DER attempt raised a format error and the PEM attempt produced the key
Wit_C10_PemFallback ==
    /\ pc = "test_connection"
    /\ private_key # NoObject
    /\ Len(Der) = 1 /\ Der[1].res.cls = "ValueError"
    /\ Len(Pem) = 1 /\ Pem[1].res = Ok

----------------------------------------------------------------------------
(* C7 *)

\* the input() calls made so far
PromptsIssued == CallsTo("input")

\* a line that is empty or all whitespace
Blank(line) == \A j \in DOMAIN line : line[j] = " "

\* C7 as stated: get_configuration prompts for a field only when that field is
\* missing, and a blank answer leaves the field as it was.
Orig_C7_PromptsOnlyForMissing ==
    [][pc = "get_configuration" =>
          LET before == globals
              after == globals'
              asked == PromptsIssued'
          IN  \A i \in DOMAIN asked :
                 /\ ~Truthy(before[i])
                 /\ (asked[i].res = Ok /\ Blank(asked[i].text) /\ pc' # "crashed")
                       => after[i] = before[i]]_vars

\* C7 amended: when all four fields are present get_configuration issues no
\* prompt, reads nothing and leaves the fields alone; when at least one field is
\* missing it prompts for all four fields, present or not, in the order account,
\* user, role, warehouse (stopping only where standard input ends, the fields
\* then left as they were); a blank answer leaves that field's value unchanged.
Thm_C7_PromptsForAllWhenAnyMissing ==
    [][pc = "get_configuration" =>
          LET before == globals
              after == globals'
              asked == PromptsIssued'
              n == IF Len(stdin) < Len(Fields) THEN Len(stdin) + 1 ELSE Len(Fields)
          IN  IF \A i \in DOMAIN Fields : Truthy(before[i])
              THEN asked = <<>> /\ after = before /\ stdin' = stdin
              ELSE /\ Labels(asked) = SubSeq(Fields, 1, n)
                   /\ \A i \in DOMAIN asked :
                         IF i <= Len(stdin)
                         THEN asked[i].res = Ok /\ asked[i].text = stdin[i]
                         ELSE asked[i].res # Ok
                   /\ Len(stdin) < Len(Fields) => (after = before /\ pc' = "crashed")
                   /\ Len(stdin) >= Len(Fields) =>
                         \A i \in DOMAIN Fields :
                            Blank(stdin[i]) => after[i] = before[i]]_vars

\* the account alone was missing: all four prompts were issued, the user prompt
\* for a field that was present, whose blank answer left it as it was
Wit_C7_PromptedForPresentField ==
    /\ pc = "load_private_key"
    /\ Labels(PromptsIssued) = Fields
    /\ ~Blank(PromptsIssued[1].text)
    /\ Blank(PromptsIssued[2].text) /\ PromptsIssued[2].text # <<>>
    /\ SNOWFLAKE_USER = <<"acme">>

----------------------------------------------------------------------------
(* C9 *)

\* a required field that is empty or still holds its placeholder string
EmptyOrPlaceholder(i) ==
    \/ globals[i] = NoneValue
    \/ globals[i] = <<>>
    \/ Contains(globals[i], IF Fields[i] = "ACCOUNT" THEN "your-actual" ELSE "your_actual")

\* C9 as stated: in every run that has gone on from get_configuration to key
\* loading no required field is empty or holds a placeholder; whenever a field is
\* empty or holds a placeholder once get_configuration has returned, it reported
\* the missing fields and returned failure, and the key is never loaded.
Orig_C9_NoPlaceholderPastConfiguration ==
    (pc \notin {"get_configuration", "crashed"}
     /\ \E i \in DOMAIN Fields : EmptyOrPlaceholder(i)) =>
        /\ ~config_ok
        /\ Printed("MissingConfiguration")
        /\ pc \in {"returned", "exited"}
        /\ ~Called("os.path.exists")

====
